---- MODULE Spec2Model ----
(***************************************************************************)
(* The classMap directive of lit-html (src/directives/class-map.ts).       *)
(*                                                                         *)
(* A JavaScript string is a sequence of units; a unit is the blank " " or  *)
(* an indivisible word ("foo", "0", "x").  A class name is a string of one *)
(* word.  The element's `class` attribute is a string; an absent attribute *)
(* and the empty attribute are both <<>>, as the code only reads it        *)
(* through `getAttribute('class') || ''`.                                  *)
(***************************************************************************)
EXTENDS Integers, Sequences, FiniteSets, TLC

\* Bounds of the exploration.
MaxApplications == 2
MaxChain == 3
MaxExternal == 1

----------------------------------------------------------------------------
\* JavaScript values of type string|boolean|number (ClassInfo, line 70).

Bool(b) == [type |-> "boolean", b |-> b, n |-> 0, s |-> <<>>, nan |-> FALSE]
Num(n) == [type |-> "number", b |-> FALSE, n |-> n, s |-> <<>>, nan |-> FALSE]
NaN == [type |-> "number", b |-> FALSE, n |-> 0, s |-> <<>>, nan |-> TRUE]
Str(s) == [type |-> "string", b |-> FALSE, n |-> 0, s |-> s, nan |-> FALSE]

Values ==
  { Bool(TRUE), Bool(FALSE), Num(0), Num(1), Num(2), NaN,
    Str(<<>>), Str(<<"0">>), Str(<<"x">>) }

IsBlank(u) == u = " "

Digits == {"0", "1", "2"}

DigitValue(u) == CASE u = "0" -> 0 [] u = "1" -> 1 [] u = "2" -> 2

RECURSIVE TrimStart(_)
TrimStart(s) ==
  IF s # <<>> /\ IsBlank(Head(s)) THEN TrimStart(Tail(s)) ELSE s

RECURSIVE TrimEnd(_)
TrimEnd(s) ==
  IF s # <<>> /\ IsBlank(s[Len(s)]) THEN TrimEnd(SubSeq(s, 1, Len(s) - 1))
  ELSE s

RECURSIVE DecimalValue(_)
DecimalValue(s) ==
  IF s = <<>> THEN 0
  ELSE 10 * DecimalValue(SubSeq(s, 1, Len(s) - 1)) + DigitValue(s[Len(s)])

\* ToNumber on a string: blanks are trimmed, the empty string is 0, a
\* string of decimal digits is its value, anything else is NaN.
StringToNumber(s) ==
  LET t == TrimEnd(TrimStart(s))
  IN IF t = <<>> THEN [nan |-> FALSE, n |-> 0]
     ELSE IF \A i \in 1..Len(t) : t[i] \in Digits
          THEN [nan |-> FALSE, n |-> DecimalValue(t)]
          ELSE [nan |-> TRUE, n |-> 0]

ToNumber(v) ==
  CASE v.type = "boolean" -> [nan |-> FALSE, n |-> IF v.b THEN 1 ELSE 0]
    [] v.type = "number" -> [nan |-> v.nan, n |-> v.n]
    [] v.type = "string" -> StringToNumber(v.s)

\* `value != bool` (line 126): the boolean becomes a number, the other
\* operand becomes a number, and NaN differs from everything.
LooseNotEquals(value, bool) ==
  LET x == ToNumber(value)
      y == ToNumber(Bool(bool))
  IN x.nan \/ x.n # y.n

\* `if (value)` (line 129).
ToBoolean(v) ==
  CASE v.type = "boolean" -> v.b
    [] v.type = "number" -> ~v.nan /\ v.n # 0
    [] v.type = "string" -> v.s # <<>>

----------------------------------------------------------------------------
\* Strings of class names.

Foo == <<"foo">>
Bar == <<"bar">>
External == <<"external">>

\* Keys a class map may carry, in the order the passes visit them.
NameOrder == <<Foo, Bar>>
Names == {NameOrder[i] : i \in 1..Len(NameOrder)}

RECURSIVE SplitFrom(_, _, _, _)
SplitFrom(s, i, cur, inBlank) ==
  IF i > Len(s) THEN <<cur>>
  ELSE IF IsBlank(s[i])
       THEN IF inBlank THEN SplitFrom(s, i + 1, cur, TRUE)
            ELSE <<cur>> \o SplitFrom(s, i + 1, <<>>, TRUE)
       ELSE SplitFrom(s, i + 1, Append(cur, s[i]), FALSE)

\* String.prototype.split(/\s+/) (line 40): '' gives [''], 'a b ' gives
\* ['a', 'b', ''].
Split(s) == SplitFrom(s, 1, <<>>, FALSE)

Range(q) == {q[i] : i \in 1..Len(q)}

\* Set.prototype.add on an insertion-ordered set.
SetAdd(q, x) == IF x \in Range(q) THEN q ELSE Append(q, x)

\* Set.prototype.delete.
SetDelete(q, x) == SelectSeq(q, LAMBDA y : y # x)

RECURSIVE AddAll(_, _)
AddAll(q, items) ==
  IF items = <<>> THEN q ELSE AddAll(SetAdd(q, Head(items)), Tail(items))

\* The DOM's ordered-set parser: blank-separated tokens, no empty token,
\* first occurrence kept.
TokenSet(s) == AddAll(<<>>, SelectSeq(Split(s), LAMBDA t : t # <<>>))

RECURSIVE Join(_)
Join(q) ==
  IF q = <<>> THEN <<>>
  ELSE IF Len(q) = 1 THEN q[1]
       ELSE q[1] \o <<" ">> \o Join(Tail(q))

\* The classes an element with this class attribute has.
Classes(s) == Range(TokenSet(s))

\* DOMTokenList.add (line 130 on the native path): append the token when
\* missing, then write the serialized token set back.
DOMTokenListAdd(s, cls) == Join(SetAdd(TokenSet(s), cls))

\* DOMTokenList.remove (lines 118, 133 on the native path).
DOMTokenListRemove(s, cls) == Join(SetDelete(TokenSet(s), cls))

----------------------------------------------------------------------------
\* The ClassList shim (lines 24-67).  `part` tells whether the shim was
\* built from an AttributePart; `classes` is the Set in insertion order.

ClassListNew(isPart, attrValue) ==
  IF isPart
  THEN [part |-> TRUE, classes |-> <<>>, changed |-> TRUE]
  ELSE [part |-> FALSE, classes |-> AddAll(<<>>, Split(attrValue)),
        changed |-> FALSE]

ClassListAdd(cl, cls) ==
  [cl EXCEPT !.classes = SetAdd(@, cls), !.changed = TRUE]

ClassListRemove(cl, cls) ==
  [cl EXCEPT !.classes = SetDelete(@, cls), !.changed = TRUE]

RECURSIVE ClassString(_)
ClassString(q) ==
  IF q = <<>> THEN <<>> ELSE Head(q) \o <<" ">> \o ClassString(Tail(q))

ClassListCommitNonEmpty(cl) ==
  IF cl.changed /\ cl.classes # <<>>
  THEN IF ~cl.part
       THEN << [via |-> "setAttribute", value |-> ClassString(cl.classes)] >>
       ELSE << [via |-> "setValue", value |-> ClassString(cl.classes)] >>
  ELSE <<>>

\* commit(): the writes it issues, each [via, value].
ClassListCommit(cl) ==
  IF cl.changed
  THEN IF ~cl.part
       THEN << [via |-> "setAttribute", value |-> ClassString(cl.classes)] >>
       ELSE << [via |-> "setValue", value |-> ClassString(cl.classes)] >>
  ELSE <<>>

----------------------------------------------------------------------------
\* Binding sites.  A site is a part of a template instance together with
\* its committer and element.

Sites == {"div", "svg", "id", "prop", "multi", "text"}

NoStrings == << <<>>, <<>> >>

\* class=${...} on an element with a classList.
\* class="a ${...}" on an element without one (an SVG element on IE11).
\* id=${...}; .class=${...}; class="${...} ${...}"; a text position.
Part(s) ==
  CASE s = "div" ->
         [id |-> s, cls |-> "AttributePart", name |-> "class", parts |-> 1,
          strings |-> NoStrings, classList |-> TRUE]
    [] s = "svg" ->
         [id |-> s, cls |-> "AttributePart", name |-> "class", parts |-> 1,
          strings |-> << <<"a", " ">>, <<>> >>, classList |-> FALSE]
    [] s = "id" ->
         [id |-> s, cls |-> "AttributePart", name |-> "id", parts |-> 1,
          strings |-> NoStrings, classList |-> TRUE]
    [] s = "prop" ->
         [id |-> s, cls |-> "PropertyPart", name |-> "class", parts |-> 1,
          strings |-> NoStrings, classList |-> TRUE]
    [] s = "multi" ->
         [id |-> s, cls |-> "AttributePart", name |-> "class", parts |-> 2,
          strings |-> << <<>>, <<" ">>, <<>> >>, classList |-> TRUE]
    [] s = "text" ->
         [id |-> s, cls |-> "NodePart", name |-> "", parts |-> 0,
          strings |-> NoStrings, classList |-> TRUE]

\* PropertyPart extends AttributePart.
InstanceOfAttributePart(part) == part.cls \in {"AttributePart", "PropertyPart"}

InstanceOfPropertyPart(part) == part.cls = "PropertyPart"

UsageErrorAnyPart(part) ==
  \/ ~InstanceOfAttributePart(part)
  \/ InstanceOfPropertyPart(part)
  \/ part.name # "class"
  \/ part.parts >= 1

UsageErrorNoCount(part) ==
  \/ ~InstanceOfAttributePart(part)
  \/ InstanceOfPropertyPart(part)
  \/ part.name # "class"

\* The guard of lines 89-90.
UsageError(part) ==
  \/ ~InstanceOfAttributePart(part)
  \/ InstanceOfPropertyPart(part)
  \/ part.name # "class"
  \/ part.parts > 1

\* part.setValue(classString) followed by the committer's commit: the
\* attribute becomes the static strings around the value.
PartSetValue(part, value) == part.strings[1] \o value \o part.strings[2]

\* previousClassesCache.get(part) === undefined (lines 99-100).
CacheMiss(cache, part) == part.id \notin DOMAIN cache

CachePutAll(cache, part, set) == [s \in Sites |-> set]

\* previousClassesCache.set(part, set) (line 104); the Set is then
\* mutated in place, so the entry holds the working set when the
\* application returns.
CachePut(cache, part, set) ==
  [s \in DOMAIN cache \cup {part.id} |-> IF s = part.id THEN set ELSE cache[s]]

----------------------------------------------------------------------------
\* The reconciliation target: the element's live token set (`native`,
\* acting on `attr`) or a shim.

TargetAdd(t, cls) ==
  IF t.native THEN [t EXCEPT !.attr = DOMTokenListAdd(@, cls)]
  ELSE [t EXCEPT !.shim = ClassListAdd(@, cls)]

TargetRemove(t, cls) ==
  IF t.native THEN [t EXCEPT !.attr = DOMTokenListRemove(@, cls)]
  ELSE [t EXCEPT !.shim = ClassListRemove(@, cls)]

\* Lines 98-110.  Both shims are built from the part.
ChooseTarget(cache, part, attrValue) ==
  IF CacheMiss(cache, part)
  THEN [native |-> FALSE, attr |-> attrValue, shim |-> ClassListNew(TRUE, attrValue)]
  ELSE IF part.classList
       THEN [native |-> TRUE, attr |-> attrValue, shim |-> ClassListNew(TRUE, attrValue)]
       ELSE [native |-> FALSE, attr |-> attrValue, shim |-> ClassListNew(TRUE, attrValue)]

InOrder(set) == SelectSeq(NameOrder, LAMBDA n : n \in set)

\* Lines 116-121, over the names still to visit.
RECURSIVE RemovalPass(_, _, _)
RemovalPass(st, classInfo, names) ==
  IF names = <<>> THEN st
  ELSE LET name == Head(names)
           next == IF name \notin DOMAIN classInfo
                   THEN [target |-> TargetRemove(st.target, name),
                         previousClasses |-> st.previousClasses \ {name},
                         ops |-> Append(st.ops, [op |-> "remove", name |-> name])]
                   ELSE st
       IN RemovalPass(next, classInfo, Tail(names))

\* Lines 124-137, over the keys still to visit.
RECURSIVE AddRemovePass(_, _, _)
AddRemovePass(st, classInfo, names) ==
  IF names = <<>> THEN st
  ELSE LET name == Head(names)
           value == classInfo[name]
           next ==
             IF LooseNotEquals(value, name \in st.previousClasses)
             THEN IF ToBoolean(value)
                  THEN [target |-> TargetAdd(st.target, name),
                        previousClasses |-> st.previousClasses \cup {name},
                        ops |-> Append(st.ops, [op |-> "add", name |-> name])]
                  ELSE [target |-> TargetRemove(st.target, name),
                        previousClasses |-> st.previousClasses \ {name},
                        ops |-> Append(st.ops, [op |-> "remove", name |-> name])]
             ELSE st
       IN AddRemovePass(next, classInfo, Tail(names))

RECURSIVE ApplyWrites(_, _, _)
ApplyWrites(part, attrValue, writes) ==
  IF writes = <<>> THEN attrValue
  ELSE ApplyWrites(part,
                   IF Head(writes).via = "setValue"
                   THEN PartSetValue(part, Head(writes).value)
                   ELSE Head(writes).value,
                   Tail(writes))

\* One application of classMap(classInfo) to a part (lines 88-143).
classMap(classInfo, part, attrValue, cache) ==
  IF UsageError(part)
  THEN [threw |-> TRUE, attr |-> attrValue, cache |-> cache,
        target |-> "none", ops |-> <<>>, writes |-> <<>>]
  ELSE LET previousClasses == IF CacheMiss(cache, part) THEN {} ELSE cache[part.id]
           st0 == [target |-> ChooseTarget(cache, part, attrValue),
                   previousClasses |-> previousClasses, ops |-> <<>>]
           st1 == RemovalPass(st0, classInfo, InOrder(previousClasses))
           st2 == AddRemovePass(st1, classInfo, InOrder(DOMAIN classInfo))
           writes == IF st2.target.native THEN <<>>
                     ELSE ClassListCommit(st2.target.shim)
       IN [threw |-> FALSE,
           attr |-> ApplyWrites(part, st2.target.attr, writes),
           cache |-> CachePut(cache, part, st2.previousClasses),
           target |-> IF st2.target.native THEN "native" ELSE "shim",
           ops |-> st2.ops, writes |-> writes]

----------------------------------------------------------------------------
\* The state: each site's element class attribute, the WeakMap of line 77,
\* and the record of the step taken last (of an application that threw,
\* the record keeps the site and not the class map).

VARIABLES attr, previousClassesCache, applications, externals, last

vars == <<attr, previousClassesCache, applications, externals, last>>

BooleanValues == {Bool(TRUE), Bool(FALSE)}

\* The class maps applied: every map of at most one key, and every map
\* of boolean values.  Lines 116-137 treat each key on its own.
ClassInfos ==
  UNION ( {[D -> Values] : D \in {D \in SUBSET Names : Cardinality(D) <= 1}}
          \cup {[D -> BooleanValues] : D \in SUBSET Names} )

EmptyInfo == [n \in {} |-> Bool(FALSE)]

\* Classes that code outside the directive puts on a rendered element.
ExternalNames == {External, Foo}

TruthyKeys(classInfo) == {n \in DOMAIN classInfo : ToBoolean(classInfo[n])}

FalsyKeys(classInfo) == {n \in DOMAIN classInfo : ~ToBoolean(classInfo[n])}

\* A cache entry as seen before a step: whether it exists, and its set.
Entry(cache, s) ==
  IF s \in DOMAIN cache THEN [present |-> TRUE, classes |-> cache[s]]
  ELSE [present |-> FALSE, classes |-> {}]

\* The template engine strips a bound attribute from the template, so the
\* element of a valid site starts without a class attribute; the other
\* elements carry a class of their own.
Init ==
  /\ attr = [s \in Sites |-> IF UsageError(Part(s)) THEN External ELSE <<>>]
  /\ previousClassesCache = [s \in {} |-> {}]
  /\ applications = 0
  /\ externals = 0
  /\ last = [kind |-> "init", site |-> "div", classInfo |-> EmptyInfo,
             threw |-> FALSE, target |-> "none", ops |-> <<>>,
             writes |-> <<>>, attrBefore |-> <<>>,
             cacheBefore |-> [present |-> FALSE, classes |-> {}],
             chained |-> FALSE, repeat |-> FALSE, prevTruthy |-> {}]

\* The template engine applies classMap(classInfo) to the part of site s,
\* in a run of at most `limit` applications.
ApplyWithin(limit, s, classInfo) ==
  /\ applications < limit
  /\ LET r == classMap(classInfo, Part(s), attr[s], previousClassesCache)
         chained == last.kind = "apply" /\ last.site = s /\ ~last.threw
     IN /\ attr' = [attr EXCEPT ![s] = r.attr]
        /\ previousClassesCache' = r.cache
        /\ last' = [kind |-> "apply", site |-> s,
                    classInfo |-> IF r.threw THEN EmptyInfo ELSE classInfo,
                    threw |-> r.threw, target |-> r.target, ops |-> r.ops,
                    writes |-> r.writes, attrBefore |-> attr[s],
                    cacheBefore |-> Entry(previousClassesCache, s),
                    chained |-> chained,
                    repeat |-> chained /\ last.classInfo = classInfo,
                    prevTruthy |-> IF chained THEN TruthyKeys(last.classInfo)
                                   ELSE {}]
  /\ applications' = applications + 1
  /\ UNCHANGED externals

Apply(s, classInfo) == ApplyWithin(MaxApplications, s, classInfo)

ApplyChain(s, classInfo) == ApplyWithin(MaxChain, s, classInfo)

\* Other code adds a class to an element the directive has rendered.
ExternalAdd(s, cls) ==
  /\ externals < MaxExternal
  /\ s \in DOMAIN previousClassesCache
  /\ cls \notin Classes(attr[s])
  /\ attr' = [attr EXCEPT ![s] = Join(SetAdd(TokenSet(@), cls))]
  /\ externals' = externals + 1
  /\ last' = [kind |-> "external", site |-> s, classInfo |-> EmptyInfo,
              threw |-> FALSE, target |-> "none", ops |-> <<>>,
              writes |-> <<>>, attrBefore |-> attr[s],
              cacheBefore |-> Entry(previousClassesCache, s),
              chained |-> FALSE, repeat |-> FALSE, prevTruthy |-> {}]
  /\ UNCHANGED <<previousClassesCache, applications>>

Next ==
  \/ \E s \in Sites, classInfo \in ClassInfos : Apply(s, classInfo)
  \/ \E s \in Sites, cls \in ExternalNames : ExternalAdd(s, cls)

Spec == Init /\ [][Next]_vars

\* The same program observed over one more application.
NextChain ==
  \/ \E s \in Sites, classInfo \in ClassInfos : ApplyChain(s, classInfo)
  \/ \E s \in Sites, cls \in ExternalNames : ExternalAdd(s, cls)

SpecChain == Init /\ [][NextChain]_vars

TypeOK ==
  /\ \A s \in Sites : Classes(attr[s]) \subseteq Names \cup {External, <<"a">>}
  /\ DOMAIN previousClassesCache \subseteq Sites
  /\ \A s \in DOMAIN previousClassesCache : previousClassesCache[s] \subseteq Names

----------------------------------------------------------------------------
\* Vocabulary of the properties.

\* The step taken last was an application that did not throw.
Applied == last.kind = "apply" /\ ~last.threw

Site == last.site

\* The element's classes after and before the step taken last.
Now == Classes(attr[Site])

Before == Classes(last.attrBefore)

\* The site's managed set before the step taken last.
ManagedBefore == last.cacheBefore.classes

Added == {last.ops[i].name : i \in {j \in 1..Len(last.ops) : last.ops[j].op = "add"}}

Removed ==
  {last.ops[i].name : i \in {j \in 1..Len(last.ops) : last.ops[j].op = "remove"}}

\* C1: after every application to a valid class binding site, every key
\* with a truthy value is a class of the element and every key with a
\* falsy value is not, whatever the element carried before.
C1_TruthyPresentFalsyAbsent ==
  Applied =>
    \A n \in DOMAIN last.classInfo :
      IF ToBoolean(last.classInfo[n]) THEN n \in Now ELSE n \notin Now

\* C2: a class that is no key of any applied class map (and no static text
\* of the template) is on the element after an application exactly when it
\* was on it before.
C2_NonInterference ==
  Applied => (External \in Now <=> External \in Before)

\* C3: when M2 is applied right after M1 at the same site, every class
\* truthy in M1 that is no key of M2 or is falsy in M2 is absent from the
\* element afterwards.
C3_RemovalCompleteness ==
  Applied /\ last.chained =>
    \A n \in last.prevTruthy :
      (n \notin DOMAIN last.classInfo \/ ~ToBoolean(last.classInfo[n]))
        => n \notin Now

\* C4: applying the same class map twice in a row writes no attribute
\* value and leaves the element's classes as they were.
C4_Idempotence ==
  Applied /\ last.repeat => last.writes = <<>> /\ Now = Before

\* C5: a key carrying '', 0 or false is not added and is removed if
\* managed; a key carrying any other value ('0', 'x', 1, 2, true) is added
\* when it was not managed and is in the managed set afterwards.  NaN is
\* left out of the table.
C5_TruthinessTable ==
  Applied =>
    \A n \in DOMAIN last.classInfo :
      LET value == last.classInfo[n]
      IN value # NaN =>
           IF value \in {Str(<<>>), Num(0), Bool(FALSE)}
           THEN /\ n \notin Added
                /\ n \in ManagedBefore => n \in Removed
                /\ n \notin previousClassesCache[Site]
           ELSE /\ n \notin ManagedBefore => n \in Added
                /\ n \in previousClassesCache[Site]

\* The shapes C6 lists: not an attribute part, a property part, an
\* attribute not named class, an attribute shared with other parts.
C6_Case(part) ==
  \/ part.cls = "NodePart"
  \/ part.cls = "PropertyPart"
  \/ part.name # "class"
  \/ part.parts >= 2

\* C6: applied to a part of one of these shapes, classMap throws before
\* any mutation: no add or remove, no value written, the class attribute
\* and the site's cache entry (or its absence) as they were.
C6_ErrorBeforeMutation ==
  last.kind = "apply" /\ C6_Case(Part(Site)) =>
    /\ last.threw
    /\ last.ops = <<>>
    /\ last.writes = <<>>
    /\ attr[Site] = last.attrBefore
    /\ Entry(previousClassesCache, Site) = last.cacheBefore

C6_Witness ==
  /\ last.kind = "apply"
  /\ last.threw
  /\ Site = "multi"
  /\ External \in Now
  /\ "div" \in DOMAIN previousClassesCache

\* A class attribute whose single part stands next to static text.
C7_Case(part) ==
  /\ part.cls = "AttributePart"
  /\ part.name = "class"
  /\ part.parts = 1
  /\ part.strings # NoStrings

\* C7 as claimed: on class="a ${classMap(...)}" the application throws
\* before any mutation.
C7_StaticTextRejected ==
  last.kind = "apply" /\ C7_Case(Part(Site)) =>
    last.threw /\ last.writes = <<>> /\ attr[Site] = last.attrBefore

\* C7 as the code has it: on class="a ${classMap(...)}" the application
\* does not throw; the site gets its managed set, and the first
\* application writes one value through setValue, which the attribute
\* holds between the static strings.
C7_StaticTextAccepted ==
  last.kind = "apply" /\ C7_Case(Part(Site)) =>
    /\ ~last.threw
    /\ Site \in DOMAIN previousClassesCache
    /\ ~last.cacheBefore.present =>
         /\ Len(last.writes) = 1
         /\ last.writes[1].via = "setValue"
         /\ attr[Site] =
              Part(Site).strings[1] \o last.writes[1].value \o Part(Site).strings[2]

C7_Witness ==
  /\ Applied
  /\ Site = "svg"
  /\ ~last.cacheBefore.present
  /\ Now = {<<"a">>, Foo}

\* C8: an application removes a class from the element only if the class
\* was in the site's managed set.
C8_RemovesOnlyManaged ==
  Applied => (Before \ Now) \subseteq ManagedBefore

\* C9: an application at one site leaves every other site's cache entry,
\* and its absence, as it was; an entry appears only in an application at
\* its own site.
C9_PerSiteState ==
  [][\A b \in Sites :
       /\ (last'.kind = "apply" /\ last'.site # b
             /\ applications' = applications + 1)
            => Entry(previousClassesCache', b) = Entry(previousClassesCache, b)
       /\ (b \notin DOMAIN previousClassesCache
             /\ b \in DOMAIN previousClassesCache')
            => (last'.kind = "apply" /\ last'.site = b
                  /\ applications' = applications + 1)]_vars

C9_Witness ==
  /\ Applied
  /\ Site = "svg"
  /\ ~last.cacheBefore.present
  /\ previousClassesCache["svg"] = {Bar}
  /\ "div" \in DOMAIN previousClassesCache
  /\ previousClassesCache["div"] = {Foo}

\* C10: on a later application to an element without a token set, the
\* element ends with the classes it had, less those the application
\* removed, plus those it added.
C10_ShimSeeded ==
  Applied /\ last.cacheBefore.present /\ ~Part(Site).classList =>
    Now = (Before \ Removed) \cup Added

\* C11: while nothing else modifies the element, every class of the
\* site's managed set is a class of the element after an application.
C11_ManagedOnElement ==
  Applied /\ externals = 0 => previousClassesCache[Site] \subseteq Now

\* C12: the first application at a site uses the shim, whatever the
\* element offers, and writes exactly one value through setValue, whose
\* tokens are the keys with truthy values.
C12_FirstApplication ==
  Applied /\ ~last.cacheBefore.present =>
    /\ last.target = "shim"
    /\ Len(last.writes) = 1
    /\ last.writes[1].via = "setValue"
    /\ Classes(last.writes[1].value) = TruthyKeys(last.classInfo)

\* C13: after an application the site's managed set is the set of keys of
\* the class map whose values are truthy.
C13_ManagedIsTruthyKeys ==
  Applied => previousClassesCache[Site] = TruthyKeys(last.classInfo)

\* The classes a shim that started empty holds after these operations.
RECURSIVE C14_ShimAfter(_, _)
C14_ShimAfter(set, ops) ==
  IF ops = <<>> THEN set
  ELSE C14_ShimAfter(IF Head(ops).op = "add" THEN set \cup {Head(ops).name}
                     ELSE set \ {Head(ops).name},
                     Tail(ops))

C15_UnchangedKeysNoOp ==
  Applied =>
    \A n \in DOMAIN last.classInfo :
      (ToBoolean(last.classInfo[n]) <=> n \in ManagedBefore)
        => n \notin Added \cup Removed

====
